---- MODULE Spec2Model ----
(***************************************************************************)
(* A model of ordinal_tsf/session.py: Session.start_experiment and the     *)
(* StrategyExperiment operations build_prediction, choose_model and        *)
(* run_tests.                                                              *)
(*                                                                         *)
(* The experiment folder is modelled as three families of files, one file  *)
(* of each family per grid point (the file names are derived from the      *)
(* spec, so a grid point and its files correspond one to one).  A file is  *)
(* absent, corrupt (present, but pickle.load raises) or valid.             *)
(***************************************************************************)
EXTENDS Integers, Sequences, FiniteSets, TLC

VARIABLES
    \* ---- the experiment folder (disk)
    specFile,        \* <folder>/logs/<fname>_<mode>_report, per grid point
    predFile,        \* <folder>/predictions/<fname>_..., per grid point
    modelFile,       \* <folder>/models/<fname>, per grid point
    plotFiles,       \* <folder>/plots/: the set of <<plot_key, grid point>> saved
    \* ---- the collaborators (fixed for a behaviour)
    seedLen,         \* model.seed_length of each configuration's strategy (0: not yet known)
    ctorStrict,      \* whether Strategy.__init__ rejects unknown keywords
    optional_params, \* dataset.optional_params: the set of flags that are set
    \* ---- choose_model: arguments and locals
    pc,              \* position in choose_model
    plotsArg,        \* the plots argument: "default" (the list []) or "dict"
    i,               \* index of next_config in expanded_hypergrid
    t,               \* index of test in tests (line 175)
    pk,              \* index of plot_key in plots (line 189)
    specs,           \* the spec dict object of each iteration of this call
    prediction,      \* local prediction
    pred_loaded_successfully,
    model,           \* local model
    model_input,     \* parameter/local model_input
    best_results,
    best_strategy,   \* metric -> reference to a spec object (its iteration), 0 for None
    returned,        \* the mapping this call returned
    err,             \* the exception raised out of choose_model, "none" if none
    surface,         \* matplotlib.pyplot's current figure: "clear" or "drawn"
    \* ---- observation of a call (history, never read by the program)
    calls,           \* per grid point: the model/Strategy calls made in this call
    seen,            \* per grid point: the state of its files when it was reached
    ctorKeys,        \* per grid point: keyword names passed to Strategy(**spec)
    run,             \* number of choose_model calls started
    faults,          \* number of external changes made to the folder
    dirty,           \* a file was changed externally since the last call started
    repeat,          \* this call repeats the previous one on an untouched folder
    healed,          \* grid points whose spec report or prediction file the
                     \* previous call found corrupt, that call having returned
    \* ---- run_tests: the folder, arguments and locals
    testPredFile,    \* <folder>/predictions/<test.id>, per test id
    rtPlotFiles,     \* <folder>/plots/: the set of <<plot_key, test id>> saved
    rtPc,            \* position in run_tests
    rtModel,         \* the model argument
    rtT,             \* index of test in tests (line 217)
    rtPk,            \* index of plot_key in plots (line 231)
    rtPrediction,    \* local prediction
    res,             \* local res
    rtReturned,      \* the mapping the call returned
    rtErr,           \* the exception raised out of run_tests, "none" if none
    \* ---- observation of run_tests (history, never read by the program)
    resFrom,         \* per entry of res: the prediction it was evaluated on
    rtPredicts,      \* per test id: number of predict calls made for it so far
    rtRun,           \* number of run_tests calls started
    rtFaults,        \* number of external changes made to the prediction files
    rtDeleted,       \* a prediction file was deleted externally
    \* ---- Session.start_experiment
    dirs,            \* directories that exist under the session directory
    starts,          \* per strategy id: number of start_experiment calls made
    dirsAfterFirst,  \* per strategy id: dirs after its first start_experiment
    sessErr,         \* exception raised by the last start_experiment
    \* ---- build_prediction called on its own
    bpPrediction,    \* whether the raw prediction has 'mvar_x_ranges' set
    bpPredArgs,      \* whether pred_args has 'ar_quant' set
    bpResult         \* the Prediction object returned

cmVars == <<specFile, predFile, modelFile, plotFiles, seedLen, ctorStrict,
            pc, plotsArg, i, t, pk, specs, prediction,
            pred_loaded_successfully, model, model_input, best_results,
            best_strategy, returned, err, surface, calls, seen, ctorKeys, run,
            faults, dirty, repeat, healed>>
rtVars == <<testPredFile, rtPlotFiles, rtPc, rtModel, rtT, rtPk, rtPrediction,
            res, rtReturned, rtErr, resFrom, rtPredicts, rtRun, rtFaults,
            rtDeleted>>
sessVars == <<dirs, starts, dirsAfterFirst, sessErr>>
bpVars == <<bpPrediction, bpPredArgs, bpResult>>
vars == <<cmVars, optional_params, sessVars, bpVars, rtVars>>

----------------------------------------------------------------------------
(* Bounds of the model.                                                    *)

\* Number of grid points in expanded_hypergrid.
NGrid == 3
\* Number of choose_model calls in a behaviour.
MaxRuns == 3
\* Number of external changes (a deletion, a crash mid-write) in a behaviour.
MaxFaults == 1
\* Raw forecasts model.predict can return: 1..MaxDraw.
MaxDraw == 3
\* Number of start_experiment calls per strategy id.
MaxStarts == 2
\* Number of run_tests calls in a behaviour.
MaxTestRuns == 3

Grid == 1..NGrid
Draws == 1..MaxDraw
\* seed_length of the models: 5 exceeds the forecast start index.
SeedLengths == {1, 2, 5}
\* choose_model's prediction_index argument.
prediction_index == 3
\* choose_model's hypergrid_keys argument: one hyperparameter axis.
hypergrid_keys == {"hp"}
\* expanded_hypergrid: grid point g is the configuration (g,).
expanded_hypergrid == [g \in Grid |-> g]

----------------------------------------------------------------------------
(* Python values.                                                          *)

\* A dict is a function from its keys; None is modelled by a value outside
\* the range of the field it stands in.
EmptyDict == [k \in {} |-> 0]
\* d[k] = v guarded by 'if k not in d' (the guard commented out at line 177).
DictSet_IfAbsent(d, k, v) ==
    [q \in (DOMAIN d) \cup {k} |-> IF q \in DOMAIN d THEN d[q] ELSE v]
\* d[k] = v
DictSet(d, k, v) == [q \in (DOMAIN d) \cup {k} |-> IF q = k THEN v ELSE d[q]]
None == -1
NoRef == 0

NoPrediction == [cfg |-> 0, input |-> 0, draws |-> 0, variant |-> "none",
                 ops |-> <<>>]
NoModel == [cfg |-> 0, seed_length |-> 0]
NoInput == [given |-> FALSE, start |-> 0]

Absent(data) == [st |-> "absent", data |-> data]
Corrupt(data) == [st |-> "corrupt", data |-> data]
Valid(data) == [st |-> "valid", data |-> data]

\* os.path.isfile
IsFile(f) == f.st # "absent"

----------------------------------------------------------------------------
(* The collaborators: TestDefinition and the Strategy's raw forecast.      *)

\* tests: one metric where higher is better, one where lower is better.
Tests == << [metric |-> "score", better |-> "higher"],
            [metric |-> "error", better |-> "lower"] >>
Metrics == {Tests[n].metric : n \in DOMAIN Tests}
TestOf(m) == CHOOSE n \in DOMAIN Tests : Tests[n].metric = m

\* test.eval(prediction): a function of the prediction's content alone.
Eval(test, p) ==
    IF test.metric = "score" THEN p.draws
    ELSE IF p.draws >= 2 THEN p.draws - 2 ELSE 2 - p.draws

\* test.compare(new, best)
Compare(test, new, best) ==
    IF test.better = "higher" THEN new > best ELSE new < best

\* model.predict(model_input, predictive_horizon=..., **eval_kwargs): the raw
\* forecast d of the model of grid point cfg on the given seed window.
RawPrediction(m, input, d) ==
    [cfg |-> m.cfg, input |-> input.start, draws |-> d, mvar_x_ranges |-> FALSE]

----------------------------------------------------------------------------
(* StrategyExperiment.build_prediction                                     *)

Wrap(raw, variant, ops) ==
    [cfg |-> raw.cfg, input |-> raw.input, draws |-> raw.draws,
     variant |-> variant, ops |-> ops]

\* The attractor branch returning, as the branches before it do.
BuildTail_AttractorReturns(raw, params) ==
    IF "is_attractor" \in params THEN Wrap(raw, "gaussian", <<"take_last">>)
    ELSE IF "is_ordinal" \in params THEN Wrap(raw, "ordinal", <<"bins">>)
    ELSE Wrap(raw, "gaussian", <<>>)

\* Lines 86-94: the attractor branch rewrites the fields and does not return;
\* the ordinal check and the Gaussian default follow it.
BuildTail(raw, params) ==
    LET taken == IF "is_attractor" \in params THEN <<"take_last">> ELSE <<>>
    IN  IF "is_ordinal" \in params
        THEN Wrap(raw, "ordinal", taken \o <<"bins">>)
        ELSE Wrap(raw, "gaussian", taken)

\* The array branch setting the bins and not returning.
BuildPrediction_ArrayFallsThrough(raw, pred_args, params) ==
    IF raw.mvar_x_ranges THEN Wrap(raw, "mixture", <<>>)
    ELSE IF pred_args.ar_quant THEN Wrap(raw, "ar_quant", <<"first">>)
    ELSE IF "is_list" \in params THEN Wrap(raw, "list", <<>>)
    ELSE IF "is_array" \in params
    THEN Wrap(raw, BuildTail(raw, params).variant,
              <<"bins">> \o BuildTail(raw, params).ops)
    ELSE IF "centroids" \in params THEN Wrap(raw, "centroids", <<>>)
    ELSE IF "is_sarimax" \in params THEN Wrap(raw, "sarimax", <<>>)
    ELSE BuildTail(raw, params)

\* Lines 61-84: the branches that return, in order; then lines 86-94.
BuildPrediction(raw, pred_args, params) ==
    IF raw.mvar_x_ranges THEN Wrap(raw, "mixture", <<>>)
    ELSE IF pred_args.ar_quant THEN Wrap(raw, "ar_quant", <<"first">>)
    ELSE IF "is_list" \in params THEN Wrap(raw, "list", <<>>)
    ELSE IF "is_array" \in params THEN Wrap(raw, "array", <<"bins">>)
    ELSE IF "centroids" \in params THEN Wrap(raw, "centroids", <<>>)
    ELSE IF "is_sarimax" \in params THEN Wrap(raw, "sarimax", <<>>)
    ELSE BuildTail(raw, params)

----------------------------------------------------------------------------
(* StrategyExperiment.choose_model                                         *)

\* pred_kwargs as choose_model is called here: no autoregressive quantiser.
pred_kwargs == [ar_quant |-> FALSE]

\* Line 126: spec = {k: v for k, v in zip(hypergrid_keys, next_config)}
FreshSpec(g) == [k \in hypergrid_keys |-> expanded_hypergrid[g]]

\* The try block without its except clause: a corrupt file's error propagates.
LoadCached_NoExcept(sf, pf, fresh, cur) ==
    IF sf.st = "corrupt" \/ pf.st = "corrupt"
    THEN [spec |-> fresh, prediction |-> cur, loaded |-> FALSE,
          exc |-> "UnpicklingError"]
    ELSE [spec |-> IF IsFile(sf) THEN sf.data ELSE fresh,
          prediction |-> IF IsFile(pf) THEN pf.data ELSE cur,
          loaded |-> IsFile(pf), exc |-> "none"]

\* pred_loaded_successfully set before the prediction is loaded, not after.
LoadCached_FlagBeforeLoad(sf, pf, fresh, cur) ==
    IF sf.st = "corrupt"
    THEN [spec |-> fresh, prediction |-> cur, loaded |-> FALSE, exc |-> "none"]
    ELSE [spec |-> IF IsFile(sf) THEN sf.data ELSE fresh,
          prediction |-> IF pf.st = "valid" THEN pf.data ELSE cur,
          loaded |-> IsFile(pf), exc |-> "none"]

\* Lines 136-146: the try block around both loads and its bare except.  The
\* spec is loaded first; an exception there skips the prediction load as well.
LoadCached(sf, pf, fresh, cur) ==
    IF sf.st = "corrupt"
    THEN [spec |-> fresh, prediction |-> cur, loaded |-> FALSE, exc |-> "none"]
    ELSE LET s == IF IsFile(sf) THEN sf.data ELSE fresh
         IN  IF pf.st = "corrupt"
             THEN [spec |-> s, prediction |-> cur, loaded |-> FALSE,
                   exc |-> "none"]
             ELSE IF IsFile(pf)
             THEN [spec |-> s, prediction |-> pf.data, loaded |-> TRUE,
                   exc |-> "none"]
             ELSE [spec |-> s, prediction |-> cur, loaded |-> FALSE,
                   exc |-> "none"]

\* The last spec evaluated always becomes the best one.
Improves_Always(test, new, best) == TRUE

\* Line 180: the test deciding whether this spec becomes the best of a metric.
Improves(test, new, best) == best = None \/ Compare(test, new, best)

\* The plots argument when it is a mapping: its keys, in order.  'draws' is
\* a data attribute of a prediction, 'plot_missing' no attribute at all.
PlotKeys == <<"draws", "plot_median", "plot_missing">>
\* getattr(prediction, plot_key, None)
PlotAttr(p, key) ==
    CASE key = "plot_median" -> "callable"
      [] key = "draws" -> "data"
      [] OTHER -> "missing"

\* The test without callable(): only a missing attribute is skipped.
Unavailable_OnlyNone(attr) == attr = "missing"

\* Lines 192 and 234: plot_eval is None or not callable(plot_eval).
Unavailable(attr) == attr = "missing" \/ attr # "callable"

Ended == pc \in {"idle", "done", "raised"}

\* choose_model touches neither the dataset nor the session's directories.
OtherFrame == UNCHANGED <<optional_params, sessVars, bpVars, rtVars>>

\* Lines 115-123: a call of choose_model, up to the grid loop.
CallChooseModel(plots) ==
    /\ Ended
    /\ run < MaxRuns
    /\ run' = run + 1
    /\ plotsArg' = plots
    /\ repeat' = (run >= 1 /\ ~dirty /\ plots = plotsArg)
    /\ dirty' = FALSE
    /\ healed' = IF pc = "done" /\ ~dirty
                 THEN {g \in Grid : \/ seen[g].spec = "corrupt"
                                    \/ seen[g].pred = "corrupt"}
                 ELSE {}
    /\ best_results' = [m \in Metrics |-> None]
    /\ best_strategy' = [m \in Metrics |-> NoRef]
    /\ model_input' = NoInput
    /\ specs' = [g \in Grid |-> EmptyDict]
    /\ prediction' = NoPrediction
    /\ model' = NoModel
    /\ pred_loaded_successfully' = FALSE
    /\ calls' = [g \in Grid |-> <<>>]
    /\ seen' = [g \in Grid |-> [spec |-> "unseen", pred |-> "unseen",
                                model |-> "unseen"]]
    /\ ctorKeys' = [g \in Grid |-> {}]
    /\ returned' = [m \in Metrics |-> EmptyDict]
    /\ err' = "none"
    /\ i' = 1
    /\ t' = 1
    /\ pk' = 1
    /\ pc' = "load"
    /\ UNCHANGED <<specFile, predFile, modelFile, plotFiles, seedLen,
                   ctorStrict, surface, faults>>
    /\ OtherFrame

\* Lines 126-146: build the spec and the file names, try the cache.
LoadCache ==
    /\ pc = "load"
    /\ LET r == LoadCached(specFile[i], predFile[i], FreshSpec(i), prediction)
       IN  /\ specs' = [specs EXCEPT ![i] = r.spec]
           /\ prediction' = r.prediction
           /\ pred_loaded_successfully' = r.loaded
           /\ IF r.exc # "none"
              THEN pc' = "raised" /\ err' = r.exc
              ELSE pc' = (IF r.loaded THEN "score" ELSE "model") /\ err' = err
    /\ seen' = [seen EXCEPT ![i] = [spec |-> specFile[i].st,
                                    pred |-> predFile[i].st,
                                    model |-> modelFile[i].st]]
    /\ t' = 1
    /\ UNCHANGED <<specFile, predFile, modelFile, plotFiles, seedLen,
                   ctorStrict, plotsArg, i, pk, model, model_input,
                   best_results, best_strategy, returned, surface, calls,
                   ctorKeys, run, faults, dirty, repeat>>
    /\ UNCHANGED healed
    /\ OtherFrame

\* Line 153, Strategy(**spec): a constructor that names its parameters raises
\* TypeError on a keyword that is none of them, one that takes **kwargs does
\* not.  Which of the two the Strategy is, is fixed the first time it matters.
CtorChoices(keys) ==
    IF keys = hypergrid_keys THEN {ctorStrict}
    ELSE IF ctorStrict = "unknown" THEN {"strict", "lenient"}
    ELSE {ctorStrict}

\* model.seed_length of the strategy of a configuration: a function of the
\* configuration, fixed the first time the strategy is instantiated.
SeedChoices(cfg) ==
    IF seedLen[cfg] = 0 THEN SeedLengths ELSE {seedLen[cfg]}

\* Lines 148-155: no prediction was loaded: load the model file, or
\* instantiate the strategy with the spec, fit it and save it.
ObtainModel ==
    /\ pc = "model"
    /\ IF IsFile(modelFile[i])
       THEN IF modelFile[i].st = "corrupt"
            THEN /\ pc' = "raised"
                 /\ err' = "ModelLoadError"
                 /\ calls' = [calls EXCEPT ![i] = Append(@, "load")]
                 /\ UNCHANGED <<model, modelFile, ctorKeys, ctorStrict,
                                seedLen>>
            ELSE /\ model' = modelFile[i].data
                 /\ calls' = [calls EXCEPT ![i] = Append(@, "load")]
                 /\ pc' = "predict"
                 /\ UNCHANGED <<err, modelFile, ctorKeys, ctorStrict, seedLen>>
       ELSE /\ ctorKeys' = [ctorKeys EXCEPT ![i] = DOMAIN specs[i]]
            /\ \E strict \in CtorChoices(DOMAIN specs[i]) :
                 /\ ctorStrict' = strict
                 /\ IF strict = "strict"
                    THEN /\ pc' = "raised"
                         /\ err' = "TypeError"
                         /\ UNCHANGED <<model, modelFile, calls, seedLen>>
                    ELSE \E len \in SeedChoices(specs[i]["hp"]) :
                         /\ seedLen' = [seedLen EXCEPT ![specs[i]["hp"]] = len]
                         /\ model' = [cfg |-> specs[i]["hp"],
                                      seed_length |-> len]
                         /\ calls' = [calls EXCEPT
                                        ![i] = @ \o <<"fit", "save">>]
                         /\ modelFile' = [modelFile EXCEPT
                                            ![i] = Valid(model')]
                         /\ pc' = "predict"
                         /\ err' = err
    /\ UNCHANGED <<specFile, predFile, plotFiles, plotsArg, i, t, pk, specs,
                   prediction, pred_loaded_successfully, model_input,
                   best_results, best_strategy, returned, surface, seen, run,
                   faults, dirty, repeat>>
    /\ UNCHANGED healed
    /\ OtherFrame

\* The prediction is not written.
DumpPrediction_Skipped(files, g, p) == files

\* Lines 172-173: pickle.dump(prediction, f) into prediction_fname.
DumpPrediction(files, g, p) == [files EXCEPT ![g] = Valid(p)]

\* Lines 159-161: the seed window, built only when no model_input is held.
SeedInput(cur, seed_start) ==
    IF cur.given THEN cur ELSE [given |-> TRUE, start |-> seed_start]

\* Lines 159-173: seed window, assertion, predict, build_prediction, dump.
SeedAndPredict ==
    /\ pc = "predict"
    /\ LET seed_start == prediction_index - model.seed_length
           input == SeedInput(model_input, seed_start)
       IN  /\ model_input' = input
           /\ IF seed_start >= 0
              THEN \E d \in Draws :
                     /\ prediction' = BuildPrediction(
                                         RawPrediction(model, input, d),
                                         pred_kwargs, optional_params)
                     /\ calls' = [calls EXCEPT ![i] = Append(@, "predict")]
                     /\ predFile' = DumpPrediction(predFile, i, prediction')
                     /\ pc' = "score"
                     /\ err' = err
              ELSE /\ pc' = "raised"
                   /\ err' = "AssertionError"
                   /\ UNCHANGED <<prediction, calls, predFile>>
    /\ UNCHANGED <<specFile, modelFile, plotFiles, seedLen, ctorStrict,
                   plotsArg, i, t, pk, specs, pred_loaded_successfully, model,
                   best_results, best_strategy, returned, surface, seen,
                   ctorKeys, run, faults, dirty, repeat>>
    /\ UNCHANGED healed
    /\ OtherFrame

\* Lines 175-184: one iteration of the loop over the tests.
ScoreTest ==
    /\ pc = "score"
    /\ LET test == Tests[t]
           metric == test.metric
           score == Eval(test, prediction)
       IN  /\ specs' = [specs EXCEPT ![i] = DictSet(@, metric, score)]
           /\ IF Improves(test, score, best_results[metric])
              THEN /\ best_strategy' = [best_strategy EXCEPT ![metric] = i]
                   /\ best_results' = [best_results EXCEPT ![metric] = score]
              ELSE UNCHANGED <<best_strategy, best_results>>
    /\ IF t < Len(Tests)
       THEN t' = t + 1 /\ pc' = pc
       ELSE t' = 1 /\ pc' = "save"
    /\ UNCHANGED <<specFile, predFile, modelFile, plotFiles, seedLen,
                   ctorStrict, plotsArg, i, pk, prediction,
                   pred_loaded_successfully, model, model_input, returned,
                   err, surface, calls, seen, ctorKeys, run, faults, dirty,
                   repeat>>
    /\ UNCHANGED healed
    /\ OtherFrame

\* Lines 186-187: the spec report is dumped.
SaveSpec ==
    /\ pc = "save"
    /\ specFile' = [specFile EXCEPT ![i] = Valid(specs[i])]
    /\ pk' = 1
    /\ pc' = "plots"
    /\ UNCHANGED <<predFile, modelFile, plotFiles, seedLen, ctorStrict,
                   plotsArg, i, t, specs, prediction,
                   pred_loaded_successfully, model, model_input, best_results,
                   best_strategy, returned, err, surface, calls, seen,
                   ctorKeys, run, faults, dirty, repeat>>
    /\ UNCHANGED healed
    /\ OtherFrame

\* Line 125 and lines 201-203: the next grid point, or the end of the loop.
AfterPlots == IF i < NGrid THEN "load" ELSE "return"

\* Lines 189-196: plots.items() on the argument, then one plot key: the
\* attribute is looked up and, when callable, drawn on the shared surface.
PlotStep ==
    /\ pc = "plots"
    /\ IF plotsArg = "default"
       THEN /\ pc' = "raised"
            /\ err' = "AttributeError"
            /\ UNCHANGED <<i, pk, surface>>
       ELSE IF pk > Len(PlotKeys)
       THEN /\ pc' = AfterPlots
            /\ i' = (IF i < NGrid THEN i + 1 ELSE i)
            /\ pk' = 1
            /\ UNCHANGED <<err, surface>>
       ELSE IF ~Unavailable(PlotAttr(prediction, PlotKeys[pk]))
       THEN /\ surface' = "drawn"
            /\ pc' = "savefig"
            /\ UNCHANGED <<err, i, pk>>
       ELSE /\ pk' = pk + 1
            /\ UNCHANGED <<pc, err, i, surface>>
    /\ UNCHANGED <<specFile, predFile, modelFile, plotFiles, seedLen,
                   ctorStrict, plotsArg, t, specs, prediction,
                   pred_loaded_successfully, model, model_input, best_results,
                   best_strategy, returned, calls, seen, ctorKeys, run, faults,
                   dirty, repeat>>
    /\ UNCHANGED healed
    /\ OtherFrame

\* Lines 197-199: savefig and clf.
SaveFig ==
    /\ pc = "savefig"
    /\ plotFiles' = plotFiles \cup {<<PlotKeys[pk], i>>}
    /\ surface' = "clear"
    /\ pk' = pk + 1
    /\ pc' = "plots"
    /\ UNCHANGED <<specFile, predFile, modelFile, seedLen, ctorStrict,
                   plotsArg, i, t, specs, prediction,
                   pred_loaded_successfully, model, model_input, best_results,
                   best_strategy, returned, err, calls, seen, ctorKeys, run,
                   faults, dirty, repeat>>
    /\ UNCHANGED healed
    /\ OtherFrame

\* Lines 201-205: return best_strategy.
Return ==
    /\ pc = "return"
    /\ returned' = [m \in Metrics |->
                      IF best_strategy[m] = NoRef THEN EmptyDict
                      ELSE specs[best_strategy[m]]]
    /\ pc' = "done"
    /\ UNCHANGED <<specFile, predFile, modelFile, plotFiles, seedLen,
                   ctorStrict, plotsArg, i, t, pk, specs, prediction,
                   pred_loaded_successfully, model, model_input, best_results,
                   best_strategy, err, surface, calls, seen, ctorKeys, run,
                   faults, dirty, repeat>>
    /\ UNCHANGED healed
    /\ OtherFrame

----------------------------------------------------------------------------
(* The environment of the experiment folder between two calls: a cache     *)
(* file is deleted, or is left corrupt by a crash in the middle of a write.*)

FileKinds == {"spec", "pred", "model"}

FaultFrame ==
    UNCHANGED <<optional_params, sessVars, bpVars, rtVars, plotFiles, seedLen,
                ctorStrict, pc, plotsArg, i, t, pk, specs, healed, prediction, pred_loaded_successfully, model, model_input,
                best_results, best_strategy, returned, err, surface, calls,
                seen, ctorKeys, run, repeat>>

\* The files of one grid point named in kinds are removed (rm -f).
DeleteFiles(kinds, g) ==
    /\ Ended
    /\ faults < MaxFaults
    /\ \/ "spec" \in kinds /\ IsFile(specFile[g])
       \/ "pred" \in kinds /\ IsFile(predFile[g])
       \/ "model" \in kinds /\ IsFile(modelFile[g])
    /\ faults' = faults + 1
    /\ dirty' = TRUE
    /\ specFile' = IF "spec" \in kinds
                   THEN [specFile EXCEPT ![g] = Absent(EmptyDict)]
                   ELSE specFile
    /\ predFile' = IF "pred" \in kinds
                   THEN [predFile EXCEPT ![g] = Absent(NoPrediction)]
                   ELSE predFile
    /\ modelFile' = IF "model" \in kinds
                    THEN [modelFile EXCEPT ![g] = Absent(NoModel)]
                    ELSE modelFile
    /\ FaultFrame

\* A write of one file is cut short: the file is left present and unreadable.
CorruptFile(kind, g) ==
    /\ Ended
    /\ faults < MaxFaults
    /\ faults' = faults + 1
    /\ dirty' = TRUE
    /\ CASE kind = "spec" ->
              /\ specFile[g].st # "corrupt"
              /\ specFile' = [specFile EXCEPT ![g] = Corrupt(EmptyDict)]
              /\ UNCHANGED <<predFile, modelFile>>
         [] kind = "pred" ->
              /\ predFile[g].st # "corrupt"
              /\ predFile' = [predFile EXCEPT ![g] = Corrupt(NoPrediction)]
              /\ UNCHANGED <<specFile, modelFile>>
         [] OTHER ->
              /\ modelFile[g].st # "corrupt"
              /\ modelFile' = [modelFile EXCEPT ![g] = Corrupt(NoModel)]
              /\ UNCHANGED <<specFile, predFile>>
    /\ FaultFrame

----------------------------------------------------------------------------
(* StrategyExperiment.run_tests                                            *)

TestIds == {"A", "B"}
\* The tests argument: two tests of one id, one test of another.
RtTests == << [id |-> "A", metric |-> "score", eval_kwargs |-> 1],
              [id |-> "A", metric |-> "error", eval_kwargs |-> 1],
              [id |-> "B", metric |-> "score", eval_kwargs |-> 2] >>
\* The model argument: the fitted model of one of two configurations.
RtModels == {[cfg |-> 1, seed_length |-> 1], [cfg |-> 2, seed_length |-> 1]}

\* Line 229: the key '<metric>_<id>' of res.
ResKey(test) == <<test.metric, test.id>>

RtEnded == rtPc \in {"idle", "done", "raised"}

\* run_tests touches none of choose_model's files or locals; the plotting
\* surface is the one of the process.
RtFrame ==
    UNCHANGED <<specFile, predFile, modelFile, plotFiles, seedLen, ctorStrict,
                pc, plotsArg, i, t, pk, specs, prediction,
                pred_loaded_successfully, model, model_input, best_results,
                best_strategy, returned, err, calls, seen, ctorKeys, run,
                faults, dirty, repeat, healed, optional_params, sessVars,
                bpVars>>

\* Line 216: a call of run_tests(model, tests, plots, pred_kwargs).
CallRunTests(m) ==
    /\ RtEnded
    /\ rtRun < MaxTestRuns
    /\ rtRun' = rtRun + 1
    /\ rtModel' = m
    /\ res' = EmptyDict
    /\ resFrom' = EmptyDict
    /\ rtReturned' = EmptyDict
    /\ rtPrediction' = NoPrediction
    /\ rtErr' = "none"
    /\ rtT' = 1
    /\ rtPk' = 1
    /\ rtPc' = "test"
    /\ UNCHANGED <<testPredFile, rtPlotFiles, rtPredicts, rtFaults, rtDeleted,
                   surface>>
    /\ RtFrame

\* The prediction is not cached.
DumpTestPrediction_Skipped(files, id, p) == files

\* Lines 226-227: pickle.dump(prediction, f) into predictions/<test.id>.
DumpTestPrediction(files, id, p) == [files EXCEPT ![id] = Valid(p)]

\* Lines 218-229: one test: its prediction is loaded from predictions/<id>
\* when that is a file (no try block: a load error propagates), else computed
\* with model.predict(**test.eval_kwargs), adapted and dumped; then scored.
RtTestStep ==
    /\ rtPc = "test"
    /\ LET test == RtTests[rtT]
           f == testPredFile[test.id]
       IN  IF IsFile(f)
           THEN IF f.st = "corrupt"
                THEN /\ rtPc' = "raised"
                     /\ rtErr' = "UnpicklingError"
                     /\ UNCHANGED <<rtPrediction, res, resFrom, testPredFile,
                                    rtPredicts>>
                ELSE /\ rtPrediction' = f.data
                     /\ res' = DictSet(res, ResKey(test), Eval(test, f.data))
                     /\ resFrom' = DictSet(resFrom, ResKey(test), f.data)
                     /\ rtPc' = "plots"
                     /\ UNCHANGED <<rtErr, testPredFile, rtPredicts>>
           ELSE \E d \in Draws :
                  LET p == BuildPrediction(
                              RawPrediction(rtModel,
                                            [given |-> TRUE,
                                             start |-> test.eval_kwargs], d),
                              pred_kwargs, optional_params)
                  IN  /\ rtPrediction' = p
                      /\ rtPredicts' = [rtPredicts EXCEPT ![test.id] = @ + 1]
                      /\ testPredFile' = DumpTestPrediction(testPredFile,
                                                            test.id, p)
                      /\ res' = DictSet(res, ResKey(test), Eval(test, p))
                      /\ resFrom' = DictSet(resFrom, ResKey(test), p)
                      /\ rtPc' = "plots"
                      /\ rtErr' = rtErr
    /\ rtPk' = 1
    /\ UNCHANGED <<rtPlotFiles, rtModel, rtT, rtReturned, rtRun, rtFaults,
                   rtDeleted, surface>>
    /\ RtFrame

\* Lines 231-238: one plot key of the plots mapping, as in choose_model; after
\* the last key the next test, or the end of the loop.
RtPlotStep ==
    /\ rtPc = "plots"
    /\ IF rtPk > Len(PlotKeys)
       THEN /\ rtPk' = 1
            /\ IF rtT < Len(RtTests)
               THEN rtT' = rtT + 1 /\ rtPc' = "test"
               ELSE rtT' = rtT /\ rtPc' = "return"
            /\ UNCHANGED surface
       ELSE IF ~Unavailable(PlotAttr(rtPrediction, PlotKeys[rtPk]))
       THEN /\ surface' = "drawn"
            /\ rtPc' = "savefig"
            /\ UNCHANGED <<rtT, rtPk>>
       ELSE /\ rtPk' = rtPk + 1
            /\ UNCHANGED <<rtPc, rtT, surface>>
    /\ UNCHANGED <<testPredFile, rtPlotFiles, rtModel, rtPrediction, res,
                   rtReturned, rtErr, resFrom, rtPredicts, rtRun, rtFaults,
                   rtDeleted>>
    /\ RtFrame

\* Lines 239-241: savefig and clf.
RtSaveFig ==
    /\ rtPc = "savefig"
    /\ rtPlotFiles' = rtPlotFiles \cup {<<PlotKeys[rtPk], RtTests[rtT].id>>}
    /\ surface' = "clear"
    /\ rtPk' = rtPk + 1
    /\ rtPc' = "plots"
    /\ UNCHANGED <<testPredFile, rtModel, rtT, rtPrediction, res, rtReturned,
                   rtErr, resFrom, rtPredicts, rtRun, rtFaults, rtDeleted>>
    /\ RtFrame

\* Lines 243-246: return res.
RtReturn ==
    /\ rtPc = "return"
    /\ rtReturned' = res
    /\ rtPc' = "done"
    /\ UNCHANGED <<testPredFile, rtPlotFiles, rtModel, rtT, rtPk,
                   rtPrediction, res, rtErr, resFrom, rtPredicts, rtRun,
                   rtFaults, rtDeleted, surface>>
    /\ RtFrame

\* The environment between two run_tests calls.
RtFaultFrame ==
    /\ UNCHANGED <<rtPlotFiles, rtPc, rtModel, rtT, rtPk, rtPrediction, res,
                   rtReturned, rtErr, resFrom, rtPredicts, rtRun, surface>>
    /\ RtFrame

\* predictions/<id> is removed.
RtDeleteFile(id) ==
    /\ RtEnded
    /\ rtFaults < MaxFaults
    /\ IsFile(testPredFile[id])
    /\ testPredFile' = [testPredFile EXCEPT ![id] = Absent(NoPrediction)]
    /\ rtFaults' = rtFaults + 1
    /\ rtDeleted' = TRUE
    /\ RtFaultFrame

\* A write of predictions/<id> is cut short.
RtCorruptFile(id) ==
    /\ RtEnded
    /\ rtFaults < MaxFaults
    /\ testPredFile[id].st # "corrupt"
    /\ testPredFile' = [testPredFile EXCEPT ![id] = Corrupt(NoPrediction)]
    /\ rtFaults' = rtFaults + 1
    /\ UNCHANGED rtDeleted
    /\ RtFaultFrame

\* The folder and run_tests before any run_tests call.
RtIdle ==
    /\ testPredFile = [id \in TestIds |-> Absent(NoPrediction)]
    /\ rtPlotFiles = {}
    /\ rtPc = "idle"
    /\ rtModel = NoModel
    /\ rtT = 1
    /\ rtPk = 1
    /\ rtPrediction = NoPrediction
    /\ res = EmptyDict
    /\ rtReturned = EmptyDict
    /\ rtErr = "none"
    /\ resFrom = EmptyDict
    /\ rtPredicts = [id \in TestIds |-> 0]
    /\ rtRun = 0
    /\ rtFaults = 0
    /\ rtDeleted = FALSE

----------------------------------------------------------------------------
(* Specification of choose_model on one experiment folder.                 *)

\* The session and build_prediction variables when the operation they belong
\* to is not the one specified.
SessIdle ==
    /\ dirs = {}
    /\ starts = <<>>
    /\ dirsAfterFirst = <<>>
    /\ sessErr = "none"

\* The folder start_experiment has just created, before any choose_model call.
CmIdle ==
    /\ specFile = [g \in Grid |-> Absent(EmptyDict)]
    /\ predFile = [g \in Grid |-> Absent(NoPrediction)]
    /\ modelFile = [g \in Grid |-> Absent(NoModel)]
    /\ plotFiles = {}
    /\ seedLen = [g \in Grid |-> 0]
    /\ ctorStrict = "unknown"
    /\ pc = "idle"
    /\ plotsArg = "default"
    /\ i = 1
    /\ t = 1
    /\ pk = 1
    /\ specs = [g \in Grid |-> EmptyDict]
    /\ prediction = NoPrediction
    /\ pred_loaded_successfully = FALSE
    /\ model = NoModel
    /\ model_input = NoInput
    /\ best_results = [m \in Metrics |-> None]
    /\ best_strategy = [m \in Metrics |-> NoRef]
    /\ returned = [m \in Metrics |-> EmptyDict]
    /\ err = "none"
    /\ surface = "clear"
    /\ calls = [g \in Grid |-> <<>>]
    /\ seen = [g \in Grid |-> [spec |-> "unseen", pred |-> "unseen",
                               model |-> "unseen"]]
    /\ ctorKeys = [g \in Grid |-> {}]
    /\ run = 0
    /\ faults = 0
    /\ dirty = FALSE
    /\ repeat = FALSE
    /\ healed = {}

BpIdle ==
    /\ bpPrediction = FALSE
    /\ bpPredArgs = FALSE
    /\ bpResult = NoPrediction

Init ==
    /\ CmIdle
    /\ optional_params = {"is_ordinal"}
    /\ SessIdle
    /\ BpIdle
    /\ RtIdle

Next ==
    \/ \E plots \in {"default", "dict"} : CallChooseModel(plots)
    \/ LoadCache
    \/ ObtainModel
    \/ SeedAndPredict
    \/ ScoreTest
    \/ SaveSpec
    \/ PlotStep
    \/ SaveFig
    \/ Return
    \/ \E kinds \in SUBSET FileKinds, g \in Grid : DeleteFiles(kinds, g)
    \/ \E kind \in FileKinds, g \in Grid : CorruptFile(kind, g)

Spec == Init /\ [][Next]_vars

----------------------------------------------------------------------------
(* Specification of run_tests on one experiment folder.                    *)

TestsNext ==
    \/ \E m \in RtModels : CallRunTests(m)
    \/ RtTestStep
    \/ RtPlotStep
    \/ RtSaveFig
    \/ RtReturn
    \/ \E id \in TestIds : RtDeleteFile(id)
    \/ \E id \in TestIds : RtCorruptFile(id)

SpecTests == Init /\ [][TestsNext]_vars

----------------------------------------------------------------------------
(* Specification of an experiment with requested plots: choose_model is     *)
(* called with a plots mapping, then run_tests is; the folder is left alone.*)

\* choose_model(..., plots={...}), before any run_tests call.
PlotsChooseModel ==
    /\ rtRun = 0
    /\ CallChooseModel("dict")

\* run_tests(model, tests, plots, pred_kwargs), choose_model not running.
PlotsRunTests ==
    /\ Ended
    /\ \E m \in RtModels : CallRunTests(m)

PlotsNext ==
    \/ PlotsChooseModel
    \/ LoadCache
    \/ ObtainModel
    \/ SeedAndPredict
    \/ ScoreTest
    \/ SaveSpec
    \/ PlotStep
    \/ SaveFig
    \/ Return
    \/ PlotsRunTests
    \/ RtTestStep
    \/ RtPlotStep
    \/ RtSaveFig
    \/ RtReturn

SpecPlots == Init /\ [][PlotsNext]_vars

----------------------------------------------------------------------------
(* Session.start_experiment                                                *)

StrategyIds == {"strat_a", "strat_b"}
SubDirs == {"models", "logs", "predictions", "plots"}
\* A directory of the session: <<id, ".">> is <directory>/<id>, <<id, sub>> is
\* <directory>/<id>/<sub>/.
Root(id) == <<id, ".">>
TreeOf(id) == {Root(id)} \cup {<<id, sub>> : sub \in SubDirs}

\* os.makedirs(path): raises FileExistsError when the path exists.
MakeDirs(r, d) ==
    IF r.err # "none" THEN r
    ELSE IF d \in r.dirs THEN [dirs |-> r.dirs, err |-> "FileExistsError"]
    ELSE [dirs |-> r.dirs \cup {d}, err |-> "none"]

\* Lines 37-41: the five makedirs calls, in order.
MakeTree(ds, id) ==
    MakeDirs(MakeDirs(MakeDirs(MakeDirs(MakeDirs(
        [dirs |-> ds, err |-> "none"],
        Root(id)), <<id, "models">>), <<id, "logs">>),
        <<id, "predictions">>), <<id, "plots">>)

\* The makedirs calls without the isdir test.
EnsureTree_NoGuard(ds, id) == MakeTree(ds, id)

\* Lines 36-41: the tree is made only when <directory>/<id> is no directory.
EnsureTree(ds, id) ==
    IF Root(id) \notin ds THEN MakeTree(ds, id)
    ELSE [dirs |-> ds, err |-> "none"]

\* Lines 34-45: start_experiment(dataset, StrategyClass).
StartExperiment(id) ==
    /\ starts[id] < MaxStarts
    /\ LET r == EnsureTree(dirs, id)
       IN  /\ dirs' = r.dirs
           /\ sessErr' = r.err
           /\ dirsAfterFirst' = IF starts[id] = 0
                                THEN [dirsAfterFirst EXCEPT ![id] = r.dirs]
                                ELSE dirsAfterFirst
    /\ starts' = [starts EXCEPT ![id] = @ + 1]
    /\ UNCHANGED <<cmVars, optional_params, bpVars, rtVars>>

\* The directory trees a session directory can hold before a call: per
\* strategy id nothing, or <directory>/<id> with any of its subdirectories (a
\* start_experiment interrupted between two makedirs, a subdirectory removed
\* by hand).
TreeStates(id) ==
    {{}} \cup {{Root(id)} \cup {<<id, sub>> : sub \in subs} :
               subs \in SUBSET SubDirs}

SessionInit ==
    /\ \E ta \in TreeStates("strat_a"), tb \in TreeStates("strat_b") :
          dirs = ta \cup tb
    /\ starts = [id \in StrategyIds |-> 0]
    /\ dirsAfterFirst = [id \in StrategyIds |-> {}]
    /\ sessErr = "none"
    /\ CmIdle
    /\ optional_params = {}
    /\ BpIdle
    /\ RtIdle

SessionNext == \E id \in StrategyIds : StartExperiment(id)

SpecSession == SessionInit /\ [][SessionNext]_vars

----------------------------------------------------------------------------
(* build_prediction called on its own, on every combination of flags.      *)

DatasetFlags == {"is_list", "is_array", "centroids", "is_sarimax",
                 "is_attractor", "is_ordinal"}

CallBuildPrediction ==
    /\ bpResult = NoPrediction
    /\ bpResult' = BuildPrediction(
                      [cfg |-> 1, input |-> 0, draws |-> 1,
                       mvar_x_ranges |-> bpPrediction],
                      [ar_quant |-> bpPredArgs], optional_params)
    /\ UNCHANGED <<cmVars, optional_params, sessVars, rtVars, bpPrediction,
                   bpPredArgs>>

BuildInit ==
    /\ bpPrediction \in BOOLEAN
    /\ bpPredArgs \in BOOLEAN
    /\ optional_params \in SUBSET DatasetFlags
    /\ bpResult = NoPrediction
    /\ CmIdle
    /\ SessIdle
    /\ RtIdle

BuildNext == CallBuildPrediction

SpecBuild == BuildInit /\ [][BuildNext]_vars

----------------------------------------------------------------------------
(* Properties of choose_model (specification Spec).                        *)

HasCall(g, c) == \E k \in DOMAIN calls[g] : calls[g][k] = c

\* Grid point g has been scored by every test in this call.
Scored(g) ==
    \/ g < i
    \/ /\ g = i
       /\ \/ pc \in {"save", "plots", "savefig", "return", "done"}
          \/ pc = "raised" /\ err = "AttributeError"

\* The scores in the spec object of grid point g are those of prediction p.
ScoresOf(g, p) ==
    \A m \in Metrics :
        m \in DOMAIN specs[g] /\ specs[g][m] = Eval(Tests[TestOf(m)], p)

\* C1: a call that repeats the previous call (same arguments, no external
\* change to the folder in between) never fits and never predicts, and no
\* step of it changes the content of a spec-report or prediction file: the
\* files it leaves are those the first call left.
C1_RepeatedCallIsCached ==
    [][(repeat /\ ~Ended) =>
          /\ specFile' = specFile
          /\ predFile' = predFile
          /\ \A g \in Grid : ~HasCall(g, "fit")' /\ ~HasCall(g, "predict")'
      ]_vars

\* A repeated call has returned, after a first call that fitted every model.
C1_Witness ==
    /\ repeat
    /\ pc = "done"
    /\ \A g \in Grid : modelFile[g].st = "valid" /\ predFile[g].st = "valid"
                          /\ specFile[g].st = "valid"

\* C2 (as claimed): when choose_model fails with the seed-length assertion at
\* a grid point, no fit, save or predict has been called for that grid point.
C2_AssertionBeforeModelCalls ==
    (pc = "raised" /\ err = "AssertionError") =>
        /\ ~HasCall(i, "fit")
        /\ ~HasCall(i, "save")
        /\ ~HasCall(i, "predict")

\* C3: when choose_model returns, for every metric the returned mapping holds
\* the spec object of a grid point whose stored score is the running best and
\* is beaten by the score of no grid point under the test's comparator; and in
\* the loop the running best is replaced only when it was None or when
\* compare(new, best) holds.
C3_Final ==
    pc = "done" =>
        \A m \in Metrics :
            LET b == best_strategy[m]
                test == Tests[TestOf(m)]
            IN  /\ b \in Grid
                /\ returned[m] = specs[b]
                /\ returned[m]["hp"] = expanded_hypergrid[b]
                /\ returned[m][m] = best_results[m]
                /\ \A g \in Grid : ~Compare(test, specs[g][m], returned[m][m])

C3_Step ==
    [][pc = "score" =>
          \A m \in Metrics :
              best_results'[m] # best_results[m] =>
                  \/ best_results[m] = None
                  \/ Compare(Tests[TestOf(m)], best_results'[m],
                             best_results[m])
      ]_vars

C3_BestTracking == []C3_Final /\ C3_Step

\* Three specs scoring 1, 3, 2 on the higher-is-better metric: the best
\* reported is 3 and the spec of the second grid point.
C3_Witness ==
    /\ pc = "done"
    /\ specs[1]["score"] = 1
    /\ specs[2]["score"] = 3
    /\ specs[3]["score"] = 2
    /\ best_results["score"] = 3
    /\ returned["score"] = specs[2]

\* C5: a prediction file that is present and cannot be deserialized raises
\* nothing out of choose_model; its grid point takes the cache-miss path: once
\* the grid point is scored, a model was loaded or fitted for it, predict was
\* called, and the scores are those of the prediction built from that call,
\* which has replaced the corrupt file.
C5_CorruptPredictionIsMiss ==
    /\ err # "UnpicklingError"
    /\ \A g \in Grid :
         (seen[g].pred = "corrupt" /\ ~dirty) =>
            /\ (g = i => ~pred_loaded_successfully)
            /\ Scored(g) =>
                 /\ HasCall(g, "load") \/ HasCall(g, "fit")
                 /\ HasCall(g, "predict")
                 /\ predFile[g].st = "valid"
                 /\ predFile[g].data.cfg = g
                 /\ ScoresOf(g, predFile[g].data)
                 /\ (g = i => prediction = predFile[g].data)

\* A grid point whose prediction file was corrupt has been scored and the
\* call has returned.
C5_Witness ==
    /\ pc = "done"
    /\ ~dirty
    /\ \E g \in Grid : seen[g].pred = "corrupt" /\ HasCall(g, "predict")

\* C8 (as claimed): a grid point whose prediction file is present and
\* loadable gets no model load, fit, save or predict, whatever the state of
\* its spec report and model file, and is scored on the cached prediction.
C8_PredictionHitSkipsModel ==
    \A g \in Grid :
        (seen[g].pred = "valid" /\ ~dirty) =>
            /\ calls[g] = <<>>
            /\ Scored(g) => ScoresOf(g, predFile[g].data)

\* C9 (as claimed): with a plots mapping given, the only error raised out of
\* the grid loop is the seed-length assertion; a cached artifact that fails
\* to load (spec report, prediction, model file) is a cache miss.
C9_OnlySeedAssertionEscapes ==
    (pc = "raised" /\ plotsArg = "dict") => err = "AssertionError"

\* C10 (as claimed): called without a plots argument, choose_model raises no
\* error from its plot loop: every grid point is processed and the mapping is
\* returned.
C10_PlotsOptional ==
    (run >= 1 /\ plotsArg = "default") =>
        ~(pc = "raised" /\ err = "AttributeError")

\* C14 (as claimed): whenever the strategy of a grid point is instantiated,
\* the keyword arguments of the constructor are exactly the names in
\* hypergrid_keys, whatever files the grid point had in the folder.
C14_CtorOnlyHyperparameters ==
    \A g \in Grid : ctorKeys[g] # {} => ctorKeys[g] = hypergrid_keys

\* C15: whenever choose_model returns, every grid point has a spec-report
\* file whose content is the grid point's spec with, for every test metric,
\* the test's eval of the prediction used in this run (loaded or recomputed);
\* and the report of a grid point is written only when all its tests have
\* been evaluated on that prediction.
C15_Final ==
    (pc = "done" /\ ~dirty) =>
        \A g \in Grid :
            /\ specFile[g].st = "valid"
            /\ specFile[g].data = specs[g]
            /\ predFile[g].st = "valid"
            /\ \A m \in Metrics :
                  /\ m \in DOMAIN specFile[g].data
                  /\ specFile[g].data[m]
                        = Eval(Tests[TestOf(m)], predFile[g].data)

C15_Step ==
    [][(~Ended /\ specFile' # specFile) =>
          /\ pc = "save"
          /\ ScoresOf(i, prediction)
          /\ specFile' = [specFile EXCEPT ![i] = Valid(specs[i])]
      ]_vars

C15_SpecReportPersisted == []C15_Final /\ C15_Step

\* A call has returned in which one grid point was scored on its cached
\* prediction and another on a recomputed one.
C15_Witness ==
    /\ pc = "done"
    /\ ~dirty
    /\ \E g \in Grid : seen[g].pred = "valid" /\ calls[g] = <<>>
    /\ \E g \in Grid : seen[g].spec = "valid" /\ HasCall(g, "predict")

\* Every model file is loadable and its model's seed fits before
\* prediction_index: the folder of a grid that has been fitted before.
ModelsReady ==
    \A g \in Grid : /\ modelFile[g].st = "valid"
                    /\ modelFile[g].data.seed_length <= prediction_index

\* The spec report of grid point g has been written in this call.
Saved(g) ==
    \/ g < i
    \/ g = i /\ pc \in {"plots", "savefig", "return", "done"}

\* C16: in a call with a plots mapping on a folder whose models are fitted, a
\* grid point whose spec report or prediction file is corrupt when it is
\* reached raises no error; once it is processed, both files are valid and
\* hold the spec and prediction of this call; and in the call that follows on
\* the untouched folder the grid point is a cache hit: no load, fit or
\* predict is made for it.
C16_SelfHealing ==
    /\ (run >= 1 /\ plotsArg = "dict" /\ ~dirty /\ ModelsReady) =>
          \A g \in Grid :
              (seen[g].spec = "corrupt" \/ seen[g].pred = "corrupt") =>
                  /\ pc # "raised"
                  /\ Scored(g) =>
                        /\ predFile[g].st = "valid"
                        /\ predFile[g].data.cfg = g
                        /\ ScoresOf(g, predFile[g].data)
                  /\ Saved(g) =>
                        /\ specFile[g].st = "valid"
                        /\ specFile[g].data = specs[g]
    /\ \A g \in healed :
          /\ calls[g] = <<>>
          /\ seen[g].spec \in {"unseen", "valid"}
          /\ seen[g].pred \in {"unseen", "valid"}
          /\ ~(g = i /\ pc \in {"model", "predict"})

\* The call after a healing call has returned: the healed grid point was
\* found valid and scored from the cache.
C16_Witness ==
    /\ pc = "done"
    /\ \E g \in healed : /\ seen[g].spec = "valid"
                         /\ seen[g].pred = "valid"
                         /\ calls[g] = <<>>

\* C18 (as claimed): called without a model_input, every grid point whose
\* prediction is recomputed passes to predict the seed window of its own
\* model, eval_ts[prediction_index - model.seed_length : prediction_index].
C18_SeedWindowOfOwnModel ==
    (pc = "score" /\ HasCall(i, "predict")) =>
        prediction.input = prediction_index - model.seed_length

----------------------------------------------------------------------------
(* Properties of run_tests (specification SpecTests).                      *)

\* The keys '<metric>_<id>' of the tests argument.
ResKeys == {ResKey(RtTests[n]) : n \in DOMAIN RtTests}

\* C11: as long as no prediction file is deleted externally, predict is
\* called at most once per test id over all run_tests calls, a test whose
\* prediction file exists makes no predict call, and a call that returns
\* returns exactly one entry per test, the test's eval of the prediction
\* cached under the test's id.
C11_Returned ==
    ~rtDeleted =>
        /\ \A id \in TestIds : rtPredicts[id] <= 1
        /\ rtPc = "done" =>
              /\ DOMAIN rtReturned = ResKeys
              /\ \A n \in DOMAIN RtTests :
                    LET test == RtTests[n]
                        f == testPredFile[test.id]
                    IN  /\ rtReturned[ResKey(test)]
                              = Eval(test, resFrom[ResKey(test)])
                        /\ f.st = "valid" => resFrom[ResKey(test)] = f.data

C11_Step ==
    [][(rtPc = "test" /\ IsFile(testPredFile[RtTests[rtT].id])) =>
          /\ rtPredicts' = rtPredicts
          /\ testPredFile' = testPredFile
      ]_vars

C11_MemoizedPerTestId == []C11_Returned /\ C11_Step

\* Three calls have been made, the last has returned, and every test id was
\* predicted once.
C11_Witness ==
    /\ rtRun = MaxTestRuns
    /\ rtPc = "done"
    /\ ~rtDeleted
    /\ \A id \in TestIds : rtPredicts[id] = 1 /\ testPredFile[id].st = "valid"

\* C12 (as claimed): a prediction file that is present and fails to load
\* raises nothing out of run_tests: the prediction is recomputed with predict
\* and cached again.
C12_LoadFailureIsCaught ==
    (\E id \in TestIds : testPredFile[id].st = "corrupt") =>
        rtPc # "raised" /\ rtErr = "none"

\* C19 (as claimed): every score in res was evaluated on a prediction made by
\* the model passed to this call.
C19_ScoresFromOwnModel ==
    \A k \in DOMAIN res : resFrom[k].cfg = rtModel.cfg

----------------------------------------------------------------------------
(* Properties of start_experiment (specification SpecSession).             *)

\* C6: start_experiment raises no error, and from the second call on with the
\* same strategy id the directories of that id are those the first call left.
C6_StartExperimentIdempotent ==
    \A id \in StrategyIds :
        /\ starts[id] >= 1 => sessErr = "none"
        /\ starts[id] >= 2 =>
              dirs \cap TreeOf(id) = dirsAfterFirst[id] \cap TreeOf(id)

\* Two calls for one id, the first of which made the tree.
C6_Witness ==
    /\ starts["strat_a"] = 2
    /\ dirsAfterFirst["strat_a"] \cap TreeOf("strat_a") = TreeOf("strat_a")
    /\ dirs \cap TreeOf("strat_a") = TreeOf("strat_a")

\* C7 (as claimed): after start_experiment has returned for a strategy id,
\* its four directories models/, logs/, predictions/ and plots/ exist.
C7_FourDirectoriesExist ==
    \A id \in StrategyIds :
        (starts[id] >= 1 /\ sessErr = "none") =>
            \A sub \in SubDirs : <<id, sub>> \in dirs

----------------------------------------------------------------------------
(* Properties of build_prediction (specification SpecBuild).               *)

\* The flags of a call: those of the raw prediction, of pred_args and of the
\* dataset.
FlagsOf(mvar, ar, params) ==
    (IF mvar THEN {"mvar_x_ranges"} ELSE {}) \cup
    (IF ar THEN {"ar_quant"} ELSE {}) \cup params

\* The first flag of order that is set, "default" when none is.
TopFlag(order, flags) ==
    IF \E k \in DOMAIN order : order[k] \in flags
    THEN order[CHOOSE k \in DOMAIN order :
                 /\ order[k] \in flags
                 /\ \A j \in DOMAIN order : order[j] \in flags => k <= j]
    ELSE "default"

VariantOfFlag(f) ==
    CASE f = "mvar_x_ranges" -> "mixture"
      [] f = "ar_quant" -> "ar_quant"
      [] f = "is_list" -> "list"
      [] f = "is_array" -> "array"
      [] f = "centroids" -> "centroids"
      [] f = "is_sarimax" -> "sarimax"
      [] f = "is_ordinal" -> "ordinal"
      [] OTHER -> "gaussian"

\* The order of the claim, and the order without the attractor flag.
ClaimedOrder == <<"mvar_x_ranges", "ar_quant", "is_list", "is_array",
                  "centroids", "is_sarimax", "is_attractor", "is_ordinal">>
SelectingOrder == <<"mvar_x_ranges", "ar_quant", "is_list", "is_array",
                    "centroids", "is_sarimax", "is_ordinal">>

OpsOfBranch(f) ==
    CASE f = "ar_quant" -> <<"first">>
      [] f = "is_array" -> <<"bins">>
      [] f = "is_attractor" -> <<"take_last">>
      [] f = "is_ordinal" -> <<"bins">>
      [] OTHER -> <<>>

----------------------------------------------------------------------------
(* Properties of the plot loops (specification SpecPlots).                 *)

\* The requested plot keys that name a callable attribute of a prediction.
RenderableKeys ==
    {PlotKeys[k] : k \in {n \in DOMAIN PlotKeys :
                            PlotAttr(NoPrediction, PlotKeys[n]) = "callable"}}

\* No plot file exists for a key that names no attribute or a non-callable
\* one; a drawn surface is saved and cleared next; when a call has returned,
\* every renderable plot of every grid point (every test) has been saved.
C17_State ==
    /\ \A f \in plotFiles : f[1] \in RenderableKeys
    /\ \A f \in rtPlotFiles : f[1] \in RenderableKeys
    /\ surface = "drawn" => (pc = "savefig" \/ rtPc = "savefig")
    /\ pc = "savefig" => surface = "drawn"
    /\ rtPc = "savefig" => surface = "drawn"
    /\ \A g \in Grid : (g < i \/ pc \in {"return", "done"}) =>
          \A key \in RenderableKeys : <<key, g>> \in plotFiles
    /\ rtPc \in {"return", "done"} =>
          /\ DOMAIN res = ResKeys
          /\ \A n \in DOMAIN RtTests : \A key \in RenderableKeys :
                <<key, RtTests[n].id>> \in rtPlotFiles

\* A plot key that is unavailable on the prediction is skipped: the loop moves
\* to the next key, nothing is raised, drawn or written.  A plot is rendered
\* only on a clear surface.
C17_Step ==
    [][/\ (/\ pc = "plots"
           /\ pk <= Len(PlotKeys)
           /\ PlotAttr(prediction, PlotKeys[pk]) # "callable") =>
              /\ pc' = "plots"
              /\ pk' = pk + 1
              /\ i' = i
              /\ err' = err
              /\ plotFiles' = plotFiles
              /\ surface' = surface
       /\ (/\ rtPc = "plots"
           /\ rtPk <= Len(PlotKeys)
           /\ PlotAttr(rtPrediction, PlotKeys[rtPk]) # "callable") =>
              /\ rtPc' = "plots"
              /\ rtPk' = rtPk + 1
              /\ rtT' = rtT
              /\ rtErr' = rtErr
              /\ rtPlotFiles' = rtPlotFiles
              /\ surface' = surface
       /\ surface' = "drawn" => surface = "clear"
      ]_vars

\* C17: in choose_model and run_tests (called with a plots mapping) a plot
\* key naming no attribute, or a non-callable one, is skipped without raising
\* and without a plot file, the remaining plots, tests and grid points are
\* processed, every rendered plot is saved and the surface is cleared before
\* the next plot is rendered.
C17_UnavailablePlotSkipped == []C17_State /\ C17_Step

\* choose_model has returned and run_tests after it: the plot after the
\* non-callable key was saved for every grid point and every test id, the
\* unavailable ones were not.
C17_Witness ==
    /\ pc = "done"
    /\ rtPc = "done"
    /\ plotFiles = {<<"plot_median", g>> : g \in Grid}
    /\ rtPlotFiles = {<<"plot_median", id>> : id \in TestIds}
    /\ surface = "clear"

====
